---- MODULE Spec2Model ----
(***************************************************************************)
(* A model of the three-stage agent pipeline of src/app.py:                *)
(*   agent1_find_unseen_spots  (Discovery, the inverse filter),            *)
(*   agent2_analyze_vibe       (VibeScorer, per-spot analysis and sort),   *)
(*   agent3_generate_narrative (ItineraryComposer).                        *)
(* The Google Maps client and the Gemini model are the environment: every  *)
(* answer they can give (a value, an empty value, an exception) is drawn   *)
(* nondeterministically by the action that makes the call.                 *)
(* Ratings are held in tenths of a star (4.5 stars = 45).                  *)
(* SpecDiscovery, SpecScorer and SpecComposer run the body of one function *)
(* each; Spec is one script run of the orchestrator (lines 301-358) from   *)
(* an empty cache; SpecCache is several script runs of one process with    *)
(* the st.cache_data wrappers of lines 61, 107 and 197.                    *)
(* A definition named ...Mut... is a faulty variant of the definition that *)
(* follows it, used to show that a property depends on that definition.    *)
(***************************************************************************)
EXTENDS Integers, Sequences, FiniteSets

VARIABLES
    stage,            \* which agent function is running / has run
    min_rating,       \* agent1 parameter (tenths of a star)
    max_reviews,      \* agent1 parameter
    raw_results,      \* raw_results['results'] of the nearby search
    unseen_spots,     \* the spot dicts: agent1's result, agent2's input (mutated in place)
    a1_result,        \* how agent1 ended: "none" | "returned" | "raised" | "cached"
    maps_calls,       \* agent1: the Google Maps calls it made
    next_spot,        \* agent2: index of the next spot of the for loop
    analyzed_spots,   \* agent2: list of references (indexes) into unseen_spots
    trace2,           \* agent2: per processed spot, what the services answered (history)
    a2_result,        \* how agent2 ended: "none" | "returned" | "raised" | "cached"
    top_spots,        \* agent3 parameter _top_spots
    final_itinerary,  \* agent3 result: NoneValue or an itinerary record
    llm3,             \* agent3: the answers the model gave, one per invocation (history)
    a3_result,        \* how agent3 ended: "none" | "returned" | "raised" | "cached"
    msgs,             \* st.error / st.warning / st.write messages surfaced so far
    city_input,       \* the sidebar's "Target City" text
    vibe_input,       \* the sidebar's "Desired Vibe / Category" text
    run_button,       \* whether the button has been pressed for this script run
    analyzed_result,  \* the list agent2_analyze_vibe handed back to the orchestrator
    runs,             \* number of script runs started so far
    cache1,           \* st.cache_data entries of agent1_find_unseen_spots
    cache2,           \* st.cache_data entries of agent2_analyze_vibe
    cache3            \* st.cache_data entries of agent3_generate_narrative

vars == <<stage, min_rating, max_reviews, raw_results, unseen_spots, a1_result,
          maps_calls, next_spot, analyzed_spots, trace2, a2_result, top_spots,
          final_itinerary, llm3, a3_result, msgs, city_input, vibe_input,
          run_button, analyzed_result, runs, cache1, cache2, cache3>>

a1vars == <<min_rating, max_reviews, raw_results, a1_result, maps_calls>>
a2vars == <<next_spot, analyzed_spots, trace2, a2_result>>
a3vars == <<top_spots, final_itinerary, llm3, a3_result>>
uivars == <<city_input, vibe_input, run_button, analyzed_result, runs>>
cachevars == <<cache1, cache2, cache3>>

----------------------------------------------------------------------------
(* Bounds of the model.                                                    *)

\* longest list of raw hits the nearby search returns
MaxHits == 2
\* longest list of spots handed to agent2 on its own
MaxSpots == 3
\* longest list of spots handed to agent3 on its own, and longest list of
\* itinerary spots the model answers with
MaxTop == 3

----------------------------------------------------------------------------
(* Python values.  A dict field read with .get is absent, present with a   *)
(* number, or present with a value that does not compare with a number     *)
(* (None, a string): tag "bad".                                            *)

Absent == [tag |-> "absent", v |-> 0]
Bad    == [tag |-> "bad", v |-> 0]
Num(n) == [tag |-> "num", v |-> n]

\* place.get(key, default): the default only when the key is absent
DictGet(field, default) == IF field.tag = "absent" THEN Num(default) ELSE field

\* Text fields are strings; two strings stand for what is not a text.
NoKey  == "<no key>"
PyNone == "<None>"

\* place.get(key) of a text field: None when the key is absent
DictGetNone(field) == IF field = NoKey THEN PyNone ELSE field

\* Python's None where a record is expected
NoneValue == [tag |-> "none"]

----------------------------------------------------------------------------
(* AGENT 1: agent1_find_unseen_spots                                       *)

\* the values the user's sliders can give (a few of them)
MinRatings == {45, 46}
MaxReviewsChoices == {50, 100}

RatingValues == {Absent, Bad, Num(45), Num(46)}
ReviewCountValues == {Absent, Bad, Num(0), Num(50), Num(100)}
NameValues == {NoKey, "Cafe A"}

Places == [name : NameValues, place_id : {"place 1"},
           rating : RatingValues, user_ratings_total : ReviewCountValues]

SeqsUpTo(S, n) == UNION {[1..k -> S] : k \in 0..n}

\* faulty variant: rating > min_rating
InverseFilterMutGt(rating, review_count, minr, maxr) ==
    IF rating.tag = "bad" THEN "raise"
    ELSE IF ~(rating.v > minr) THEN "drop"
    ELSE IF review_count.tag = "bad" THEN "raise"
    ELSE IF ~(review_count.v <= maxr) THEN "drop"
    ELSE IF review_count.v > 0 THEN "keep" ELSE "drop"

\* line 96, evaluated left to right with Python's short-circuit "and";
\* comparing a bad value with a number raises TypeError
InverseFilter(rating, review_count, minr, maxr) ==
    IF rating.tag = "bad" THEN "raise"
    ELSE IF ~(rating.v >= minr) THEN "drop"
    ELSE IF review_count.tag = "bad" THEN "raise"
    ELSE IF ~(review_count.v <= maxr) THEN "drop"
    ELSE IF review_count.v > 0 THEN "keep" ELSE "drop"

\* lines 97-102: the dict appended for a kept place
NewSpot(place) ==
    [name         |-> DictGetNone(place.name),
     place_id     |-> DictGetNone(place.place_id),
     rating       |-> DictGet(place.rating, 0).v,
     review_count |-> DictGet(place.user_ratings_total, 0).v,
     url          |-> NoKey,
     vibe_analysis |-> NoneValue]

\* faulty variant: a kept place goes to the front of the list
RECURSIVE FilterLoopMutPrepend(_, _, _, _, _)
FilterLoopMutPrepend(places, i, acc, minr, maxr) ==
    IF i > Len(places) THEN [raised |-> FALSE, spots |-> acc]
    ELSE LET place == places[i]
             verdict == InverseFilter(DictGet(place.rating, 0),
                                      DictGet(place.user_ratings_total, 0),
                                      minr, maxr)
         IN  IF verdict = "raise" THEN [raised |-> TRUE, spots |-> acc]
             ELSE FilterLoopMutPrepend(places, i + 1,
                             IF verdict = "keep" THEN <<NewSpot(place)>> \o acc
                                                 ELSE acc,
                             minr, maxr)

\* lines 88-102: the for loop over the hits, from hit i on, with the list built so far
RECURSIVE FilterLoop(_, _, _, _, _)
FilterLoop(places, i, acc, minr, maxr) ==
    IF i > Len(places) THEN [raised |-> FALSE, spots |-> acc]
    ELSE LET place == places[i]
             verdict == InverseFilter(DictGet(place.rating, 0),
                                      DictGet(place.user_ratings_total, 0),
                                      minr, maxr)
         IN  IF verdict = "raise" THEN [raised |-> TRUE, spots |-> acc]
             ELSE FilterLoop(places, i + 1,
                             IF verdict = "keep" THEN Append(acc, NewSpot(place))
                                                 ELSE acc,
                             minr, maxr)

\* lines 62-105: the whole function, for each answer of geocode and
\* places_nearby, the lists of hits being drawn from hit_lists
Agent1On(hit_lists) ==
    /\ stage = "Discovering"
    /\ \E geo \in {"ok", "empty", "raise"},
          search \in {"ok", "raise"},
          places \in hit_lists \cup {<<>>} :
         IF geo = "empty" THEN
            /\ raw_results' = <<>>
            /\ unseen_spots' = <<>>
            /\ a1_result' = "returned"
            /\ msgs' = msgs \cup {"a1.write.searching", "a1.error.no_coordinates"}
            /\ maps_calls' = {"geocode"}
            /\ search = "ok" /\ places = <<>>
         ELSE IF geo = "raise" \/ search = "raise" THEN
            /\ raw_results' = <<>>
            /\ unseen_spots' = <<>>
            /\ a1_result' = "returned"
            /\ msgs' = msgs \cup {"a1.write.searching", "a1.error.maps_api"}
            /\ maps_calls' = IF geo = "raise" THEN {"geocode"}
                                              ELSE {"geocode", "places_nearby"}
            /\ places = <<>>
            /\ (geo = "raise" => search = "ok")
         ELSE LET r == FilterLoop(places, 1, <<>>, min_rating, max_reviews)
              IN  /\ raw_results' = places
                  /\ maps_calls' = {"geocode", "places_nearby"}
                  /\ unseen_spots' = IF r.raised THEN <<>> ELSE r.spots
                  /\ a1_result' = IF r.raised THEN "raised" ELSE "returned"
                  /\ msgs' = msgs \cup {"a1.write.searching"}
                              \cup (IF r.raised THEN {} ELSE {"a1.write.found"})
    /\ UNCHANGED <<min_rating, max_reviews>>
    /\ UNCHANGED a2vars
    /\ UNCHANGED a3vars

\* the function with every list of up to MaxHits hits
Agent1 == Agent1On(SeqsUpTo(Places, MaxHits))

----------------------------------------------------------------------------
(* AGENT 2: agent2_analyze_vibe                                            *)

FieldNames == {"vibe_adjectives", "unique_features", "vibe_match_score",
               "vibe_match_justification"}

\* what gmaps.place can answer: an exception, or a result with a number of
\* reviews and with or without a url
ReviewCounts == {0, 2}
DetailAnswers ==
    {[kind |-> "raise", reviews |-> 0, url |-> NoKey]}
    \cup [kind : {"ok"}, reviews : ReviewCounts, url : {NoKey, "https://maps/1"}]

\* what model.generate_content can answer: an exception (also a response
\* without parts), a function call of another name, or a call of
\* analyze_spot_vibe whose arguments have a score that is an integer or not
\* and other fields that are of the declared types or not
ScoreArgs == {0, 5, 10, 11}
LlmAnswers2 ==
    {[kind |-> "raise", name |-> "", others_ok |-> FALSE, score_int |-> FALSE, score |-> 0],
     [kind |-> "call", name |-> "other", others_ok |-> TRUE, score_int |-> TRUE, score |-> 5],
     [kind |-> "call", name |-> "analyze_spot_vibe", others_ok |-> FALSE,
      score_int |-> TRUE, score |-> 5],
     [kind |-> "call", name |-> "analyze_spot_vibe", others_ok |-> TRUE,
      score_int |-> FALSE, score |-> 0]}
    \cup [kind : {"call"}, name : {"analyze_spot_vibe"}, others_ok : {TRUE},
          score_int : {TRUE}, score : ScoreArgs]

NotCalled == [kind |-> "not called", name |-> "", others_ok |-> FALSE,
              score_int |-> FALSE, score |-> 0]

\* lines 41-46 and 179: SpotVibeAnalysis.model_validate(args) accepts the
\* arguments when every field is there with its declared type; Field(...)
\* gives descriptions only, no bounds
ModelValidate2(args) == args.others_ok /\ args.score_int

\* line 182: vibe_analysis.model_dump()
ModelDump2(args) ==
    [vibe_adjectives          |-> "adjectives",
     unique_features          |-> "features",
     vibe_match_score         |-> args.score,
     vibe_match_justification |-> "justification"]

\* faulty variant: the test for no reviews is missing
NoReviewsMutNever(reviews) == FALSE

\* line 146: "if not reviews"
NoReviews(reviews) == reviews = 0

\* faulty variant: any function call is taken for the analysis
IsAnalyzeCallMutAny(fc) == TRUE

\* line 177: the name test on the function call
IsAnalyzeCall(fc) == fc.name = "analyze_spot_vibe"

\* faulty variant: only pydantic's ValidationError is caught
CaughtBy2MutValidationOnly(exc) == exc = "validation"

\* lines 188-189: "except Exception" catches whatever the body raises
CaughtBy2(exc) == exc \in {"maps", "model", "validation"}

\* lines 136-186: the body of the try for one spot, given the answers of the
\* two services.  exc is "" when the body ends without raising.
AnalyzeSpot(spot, d, l) ==
    IF d.kind = "raise" THEN
        [spot |-> spot, append |-> FALSE, llm |-> NotCalled, exc |-> "maps",
         msg |-> {}]
    ELSE LET with_url == [spot EXCEPT !.url = IF d.url = NoKey THEN "" ELSE d.url]
         IN  IF NoReviews(d.reviews) THEN
                 [spot |-> with_url, append |-> FALSE, llm |-> NotCalled, exc |-> "",
                  msg |-> {"a2.write.skip_no_reviews"}]
             ELSE IF l.kind = "raise" THEN
                 [spot |-> with_url, append |-> FALSE, llm |-> l, exc |-> "model",
                  msg |-> {}]
             ELSE IF ~IsAnalyzeCall(l) THEN
                 [spot |-> with_url, append |-> FALSE, llm |-> l, exc |-> "",
                  msg |-> {"a2.write.skip_invalid"}]
             ELSE IF ~ModelValidate2(l) THEN
                 [spot |-> with_url, append |-> FALSE, llm |-> l, exc |-> "validation",
                  msg |-> {}]
             ELSE
                 [spot |-> [with_url EXCEPT !.vibe_analysis = ModelDump2(l)],
                  append |-> TRUE, llm |-> l, exc |-> "",
                  msg |-> {"a2.write.analyzed"}]

\* the sort key of line 192
ScoreOf(spots, ref) == spots[ref].vibe_analysis.vibe_match_score

\* faulty variant: x goes in front of the elements with its key
RECURSIVE InsertDescMutTiesFirst(_, _, _)
InsertDescMutTiesFirst(spots, sorted, x) ==
    IF sorted = <<>> THEN <<x>>
    ELSE IF ScoreOf(spots, Head(sorted)) > ScoreOf(spots, x)
         THEN <<Head(sorted)>> \o InsertDescMutTiesFirst(spots, Tail(sorted), x)
         ELSE <<x>> \o sorted

\* line 192: list.sort(key=..., reverse=True) is a stable sort: elements with
\* equal keys keep their order.  Insert x behind every element whose key is
\* not smaller.
RECURSIVE InsertDesc(_, _, _)
InsertDesc(spots, sorted, x) ==
    IF sorted = <<>> THEN <<x>>
    ELSE IF ScoreOf(spots, Head(sorted)) >= ScoreOf(spots, x)
         THEN <<Head(sorted)>> \o InsertDesc(spots, Tail(sorted), x)
         ELSE <<x>> \o sorted

RECURSIVE SortFrom(_, _, _, _)
SortFrom(spots, list, i, sorted) ==
    IF i > Len(list) THEN sorted
    ELSE SortFrom(spots, list, i + 1, InsertDesc(spots, sorted, list[i]))

\* faulty variant: the sort is missing
SortByScoreMutNoSort(spots, list) == list

\* line 192: the sort of the whole list

SortByScore(spots, list) == SortFrom(spots, list, 1, <<>>)

\* lines 135-189: one iteration of the for loop, the answers of gmaps.place
\* being drawn from details and those of the model from llms
Agent2StepOn(details, llms) ==
    /\ stage = "Scoring"
    /\ a2_result = "none"
    /\ next_spot <= Len(unseen_spots)
    /\ \E d \in details, l \in llms :
         LET r == AnalyzeSpot(unseen_spots[next_spot], d, l)
             caught == r.exc # "" /\ CaughtBy2(r.exc)
             escapes == r.exc # "" /\ ~CaughtBy2(r.exc)
         IN  /\ unseen_spots' = [unseen_spots EXCEPT ![next_spot] = r.spot]
             /\ analyzed_spots' = IF r.append THEN Append(analyzed_spots, next_spot)
                                              ELSE analyzed_spots
             /\ trace2' = Append(trace2, [details |-> d, llm |-> r.llm])
             /\ msgs' = msgs \cup r.msg
                         \cup (IF caught THEN {"a2.warning.error"} ELSE {})
             /\ a2_result' = IF escapes THEN "raised" ELSE "none"
             /\ next_spot' = next_spot + 1
    /\ UNCHANGED stage
    /\ UNCHANGED a1vars
    /\ UNCHANGED a3vars

\* the iteration with every answer of the two services
Agent2Step == Agent2StepOn(DetailAnswers, LlmAnswers2)

\* lines 191-195: after the loop, the sort and the return
Agent2Return ==
    /\ stage = "Scoring"
    /\ a2_result = "none"
    /\ next_spot > Len(unseen_spots)
    /\ analyzed_spots' = SortByScore(unseen_spots, analyzed_spots)
    /\ a2_result' = "returned"
    /\ msgs' = msgs \cup {"a2.write.finished"}
    /\ UNCHANGED <<unseen_spots, next_spot, trace2>>
    /\ UNCHANGED a1vars
    /\ UNCHANGED a3vars

----------------------------------------------------------------------------
(* AGENT 3: agent3_generate_narrative                                      *)

PlaceNames == {"Cafe A", "Cafe B"}
MapLinks == {"", "https://maps/1"}

\* lines 48-52: one FinalItinerarySpot as the model's arguments give it
ItinerarySpots == [place_name : PlaceNames, pitch_narrative : {"pitch"},
                   google_maps_link : MapLinks]

\* what model.generate_content can answer to the itinerary prompt: an
\* exception (also a response without parts), a call of another name, a call
\* of generate_itinerary whose arguments are not of the declared types, or
\* one whose arguments are: a title and a list of spots of any length
LlmAnswers3 ==
    {[kind |-> "raise", name |-> "", fields_ok |-> FALSE, itinerary_spots |-> <<>>],
     [kind |-> "call", name |-> "other", fields_ok |-> TRUE, itinerary_spots |-> <<>>],
     [kind |-> "call", name |-> "generate_itinerary", fields_ok |-> FALSE,
      itinerary_spots |-> <<>>]}
    \cup [kind : {"call"}, name : {"generate_itinerary"}, fields_ok : {TRUE},
          itinerary_spots : SeqsUpTo(ItinerarySpots, MaxTop)]

\* faulty variant: the arguments are not validated
ModelValidate3MutAcceptAll(args) == TRUE

\* lines 54-57 and 264: FinalItinerary.model_validate(args) accepts the
\* arguments when every field is there with its declared type; the list has
\* no length constraint
ModelValidate3(args) == args.fields_ok

\* the FinalItinerary object returned at line 265
FinalItinerary(args) ==
    [itinerary_title |-> "title", itinerary_spots |-> args.itinerary_spots]

\* faulty variant: the test for an empty list is missing
NoTopSpotsMutNever(spots) == FALSE

\* line 204: "if not _top_spots"
NoTopSpots(spots) == spots = <<>>

\* line 262: the name test on the function call
IsItineraryCall(fc) == fc.name = "generate_itinerary"

\* lines 209-218: the summary sent in the prompt, one record per spot
SpotDataSummary(spots) ==
    [i \in 1..Len(spots) |->
        [name               |-> spots[i].name,
         url                |-> spots[i].url,
         rating             |-> spots[i].rating,
         review_count       |-> spots[i].review_count,
         vibe_adjectives    |-> spots[i].vibe_analysis.vibe_adjectives,
         unique_features    |-> spots[i].vibe_analysis.unique_features,
         vibe_justification |-> spots[i].vibe_analysis.vibe_match_justification]]

\* lines 198-272: the whole function, for each answer of the model drawn
\* from llms
Agent3On(llms) ==
    /\ stage = "Composing"
    /\ a3_result = "none"
    /\ IF NoTopSpots(top_spots) THEN
          /\ final_itinerary' = NoneValue
          /\ llm3' = llm3
          /\ msgs' = msgs \cup {"a3.write.generating"}
       ELSE \E l \in llms :
          /\ llm3' = Append(llm3, [prompt |-> SpotDataSummary(top_spots), answer |-> l])
          /\ IF l.kind = "raise" THEN
                /\ final_itinerary' = NoneValue
                /\ msgs' = msgs \cup {"a3.write.generating", "a3.error.exception"}
             ELSE IF ~IsItineraryCall(l) THEN
                /\ final_itinerary' = NoneValue
                /\ msgs' = msgs \cup {"a3.write.generating", "a3.error.structure"}
             ELSE IF ~ModelValidate3(l) THEN
                /\ final_itinerary' = NoneValue
                /\ msgs' = msgs \cup {"a3.write.generating", "a3.error.exception"}
             ELSE
                /\ final_itinerary' = FinalItinerary(l)
                /\ msgs' = msgs \cup {"a3.write.generating"}
    /\ a3_result' = "returned"
    /\ UNCHANGED <<unseen_spots, top_spots>>
    /\ UNCHANGED a1vars
    /\ UNCHANGED a2vars

\* the function with every answer of the model
Agent3 == Agent3On(LlmAnswers3)

----------------------------------------------------------------------------
(* Specifications.  Each agent function is first run on its own, from      *)
(* every input (within the bounds) that the stage before it can hand over. *)

Idle1 ==
    /\ raw_results = <<>>
    /\ a1_result = "none"
    /\ maps_calls = {}

Idle2 ==
    /\ next_spot = 1
    /\ analyzed_spots = <<>>
    /\ trace2 = <<>>
    /\ a2_result = "none"

Idle3 ==
    /\ final_itinerary = NoneValue
    /\ llm3 = <<>>
    /\ a3_result = "none"

\* a cache is the set of its entries [key, value, input]; at process start
\* it has none
EmptyCache == {}

\* the sidebar as a stage run on its own finds it, and nothing cached
FixedUi ==
    /\ city_input = "Lisbon"
    /\ vibe_input = "cozy cafe"
    /\ run_button = TRUE
    /\ analyzed_result = <<>>
    /\ runs = 1
    /\ cache1 = EmptyCache
    /\ cache2 = EmptyCache
    /\ cache3 = EmptyCache

\* agent1 called with the sliders' values
InitDiscovery ==
    /\ stage = "Discovering"
    /\ min_rating \in MinRatings
    /\ max_reviews \in MaxReviewsChoices
    /\ unseen_spots = <<>>
    /\ top_spots = <<>>
    /\ msgs = {}
    /\ Idle1 /\ Idle2 /\ Idle3
    /\ FixedUi

Discover == Agent1 /\ stage' = "Done" /\ UNCHANGED uivars /\ UNCHANGED cachevars

NextDiscovery == Discover

SpecDiscovery == InitDiscovery /\ [][NextDiscovery]_vars

\* the spots agent1 builds from one kind of place that passes the filter
ScorerPlace == [name |-> "Cafe A", place_id |-> "place 1",
                rating |-> Num(46), user_ratings_total |-> Num(50)]

\* agent2 called with a list agent1 can return
InitScorer ==
    /\ stage = "Scoring"
    /\ min_rating = 45
    /\ max_reviews = 50
    /\ \E n \in 0..MaxSpots :
         LET r == FilterLoop([i \in 1..n |-> ScorerPlace], 1, <<>>, 45, 50)
         IN  /\ ~r.raised
             /\ unseen_spots = r.spots
    /\ top_spots = <<>>
    /\ msgs = {}
    /\ Idle1 /\ Idle2 /\ Idle3
    /\ FixedUi

ScoreSpot == Agent2Step /\ UNCHANGED uivars /\ UNCHANGED cachevars

ScoreReturn == Agent2Return /\ stage' = "Done" /\ UNCHANGED uivars
               /\ UNCHANGED cachevars

NextScorer == ScoreSpot \/ ScoreReturn

SpecScorer == InitScorer /\ [][NextScorer]_vars

\* the spots agent2 returns: a spot of agent1 with the url and the analysis
\* of a successful iteration
ComposerPlaces == [name : {"Cafe A", "Cafe B"}, place_id : {"place 1"},
                   rating : {Num(46)}, user_ratings_total : {Num(50)}]

ComposerSpots ==
    {AnalyzeSpot(NewSpot(p), d, l).spot :
        p \in ComposerPlaces,
        d \in {x \in DetailAnswers : x.kind = "ok" /\ x.reviews > 0},
        l \in {x \in LlmAnswers2 : x.name = "analyze_spot_vibe" /\ x.others_ok
                                   /\ x.score_int /\ x.score = 10}}

\* agent3 called with a list of scored spots
InitComposer ==
    /\ stage = "Composing"
    /\ min_rating = 45
    /\ max_reviews = 50
    /\ unseen_spots = <<>>
    /\ top_spots \in SeqsUpTo(ComposerSpots, MaxTop)
    /\ msgs = {}
    /\ Idle1 /\ Idle2 /\ Idle3
    /\ FixedUi

Compose == Agent3 /\ stage' = "Done" /\ UNCHANGED uivars /\ UNCHANGED cachevars

NextComposer == Compose

SpecComposer == InitComposer /\ [][NextComposer]_vars

----------------------------------------------------------------------------
(* THE ORCHESTRATOR: the "if run_button:" block of lines 301-358, with the *)
(* st.cache_data wrappers of the three functions.  The block is cut at the *)
(* calls of the agents: stage is the position in it.                       *)
(*   "Idle"        before line 301                                         *)
(*   "Discovering" in the call of line 313    "Discovered" at line 320     *)
(*   "Scoring"     in the call of line 322    "Scored"     at line 327     *)
(*   "Composing"   in the call of line 330    "Composed"   at line 337     *)
(*   "Done"        past line 358                                           *)
(*   "Crashed"     an exception left the block                             *)

\* longest list of raw hits of a search in a whole run of the pipeline
MaxRunHits == 4
\* number of script runs in the specification with the cache
MaxRuns == 2

\* line 331: analyzed_spots[:3]
TopK == 3

\* the run's sliders
RunMinRating == 45
RunMaxReviews == 50

\* the hits of a search in a whole run: one that passes the filter, one the
\* filter drops, one whose rating does not compare with a number
RunPlaces ==
    {[name |-> "Cafe A", place_id |-> "place 1", rating |-> Num(46),
      user_ratings_total |-> Num(50)],
     [name |-> "Cafe A", place_id |-> "place 1", rating |-> Num(46),
      user_ratings_total |-> Num(100)],
     [name |-> "Cafe A", place_id |-> "place 1", rating |-> Bad,
      user_ratings_total |-> Num(50)]}

\* the answers of gmaps.place and of the model in a whole run
RunDetails == {x \in DetailAnswers : x.url # NoKey \/ x.kind = "raise"}
RunLlm2 == {x \in LlmAnswers2 :
               \/ x.kind = "raise"
               \/ (x.name = "analyze_spot_vibe" /\ x.others_ok /\ x.score_int
                   /\ x.score \in {5, 10})}
RunLlm3 == {x \in LlmAnswers3 : Len(x.itinerary_spots) <= 1}

\* the messages each function writes
A1Msgs == {"a1.write.searching", "a1.write.found", "a1.error.no_coordinates",
           "a1.error.maps_api"}
A2Msgs == {"a2.write.skip_no_reviews", "a2.write.skip_invalid", "a2.write.analyzed",
           "a2.warning.error", "a2.write.finished"}
A3Msgs == {"a3.write.generating", "a3.error.exception", "a3.error.structure"}

\* lines 61, 107, 197: st.cache_data builds the key of an entry from the
\* arguments of the call, leaving out every parameter whose name starts with
\* an underscore (_unseen_spots, _top_spots)
CacheKey1(city, query, maxr, minr) == <<city, query, maxr, minr>>
CacheKey2(spots, user_vibe) == <<user_vibe>>
CacheKey3(spots, city, vibe) == <<city, vibe>>

Cached(cache, key) == \E e \in cache : e.key = key
Entry(cache, key) == CHOOSE e \in cache : e.key = key

Key1 == CacheKey1(city_input, vibe_input, max_reviews, min_rating)
Key2 == CacheKey2(unseen_spots, vibe_input)
Key3 == CacheKey3(top_spots, city_input, vibe_input)

\* the spots as agent1 returned them, before agent2 wrote into them
AsDiscovered(spots) ==
    [i \in 1..Len(spots) |-> [spots[i] EXCEPT !.url = NoKey, !.vibe_analysis = NoneValue]]

\* the list of dicts behind agent2's list of references
Materialize(spots, refs) == [k \in 1..Len(refs) |-> spots[refs[k]]]

\* faulty variant: both texts must be missing
InputsMissingMutBoth(city, vibe) == city = "" /\ vibe = ""

\* line 302: "if not city_input or not vibe_input"
InputsMissing(city, vibe) == city = "" \/ vibe = ""

\* faulty variant: agent2 is called whatever agent1 returned
HasUnseenSpotsMutAlways(spots) == TRUE

\* line 320: "if unseen_spots"
HasUnseenSpots(spots) == spots # <<>>

\* line 327: "if analyzed_spots"
HasAnalyzedSpots(spots) == spots # <<>>

\* faulty variant: the last three spots
TopSliceMutLast(spots) ==
    IF Len(spots) <= TopK THEN spots ELSE SubSeq(spots, Len(spots) - TopK + 1, Len(spots))

\* line 331: analyzed_spots[:3]
TopSlice(spots) == IF Len(spots) <= TopK THEN spots ELSE SubSeq(spots, 1, TopK)

\* faulty variant: no message when agent2 returns nothing
WarnNoScoredMutSilent == {}

\* line 356: the warning of the else of "if analyzed_spots"
WarnNoScored == {"orch.warning.a2_none"}

\* line 358: the warning of the else of "if unseen_spots"
WarnNoUnseen == {"orch.warning.a1_none"}

\* what every step of a run leaves alone
RunFrame == UNCHANGED <<city_input, vibe_input, run_button, runs>>

\* lines 301-305: the button is pressed
RunButton ==
    /\ stage = "Idle"
    /\ ~run_button
    /\ run_button' = TRUE
    /\ IF InputsMissing(city_input, vibe_input)
          THEN /\ msgs' = msgs \cup {"orch.error.input"}
               /\ stage' = "Idle"
          ELSE /\ msgs' = msgs
               /\ stage' = "Discovering"
    /\ UNCHANGED <<city_input, vibe_input, runs, analyzed_result, unseen_spots>>
    /\ UNCHANGED a1vars
    /\ UNCHANGED a2vars
    /\ UNCHANGED a3vars
    /\ UNCHANGED cachevars

\* lines 313-318 on a cache miss: agent1 runs; what it returns is stored
CallAgent1On(hit_lists) ==
    /\ ~Cached(cache1, Key1)
    /\ Agent1On(hit_lists)
    /\ stage' = IF a1_result' = "raised" THEN "Crashed" ELSE "Discovered"
    /\ cache1' = IF a1_result' = "raised" THEN cache1
                 ELSE cache1 \cup {[key |-> Key1, value |-> unseen_spots',
                                    said |-> msgs' \cap A1Msgs]}
    /\ RunFrame
    /\ UNCHANGED <<analyzed_result, cache2, cache3>>

\* lines 313-318 on a cache hit: the stored list and messages are replayed
HitAgent1 ==
    /\ stage = "Discovering"
    /\ Cached(cache1, Key1)
    /\ unseen_spots' = Entry(cache1, Key1).value
    /\ msgs' = msgs \cup Entry(cache1, Key1).said
    /\ a1_result' = "cached"
    /\ stage' = "Discovered"
    /\ RunFrame
    /\ UNCHANGED <<min_rating, max_reviews, raw_results, maps_calls, analyzed_result>>
    /\ UNCHANGED a2vars
    /\ UNCHANGED a3vars
    /\ UNCHANGED cachevars

\* lines 320 and 357-358: the test on agent1's list
AfterAgent1 ==
    /\ stage = "Discovered"
    /\ IF HasUnseenSpots(unseen_spots)
          THEN /\ stage' = "Scoring"
               /\ msgs' = msgs
          ELSE /\ stage' = "Done"
               /\ msgs' = msgs \cup WarnNoUnseen
    /\ RunFrame
    /\ UNCHANGED <<unseen_spots, analyzed_result>>
    /\ UNCHANGED a1vars
    /\ UNCHANGED a2vars
    /\ UNCHANGED a3vars
    /\ UNCHANGED cachevars

\* lines 322-325 on a cache miss: one iteration of agent2's loop
CallAgent2StepOn(details, llms) ==
    /\ ~Cached(cache2, Key2)
    /\ Agent2StepOn(details, llms)
    /\ RunFrame
    /\ UNCHANGED analyzed_result
    /\ UNCHANGED cachevars

\* lines 322-325 on a cache miss: agent2 returns; what it returns is stored
CallAgent2Return ==
    /\ ~Cached(cache2, Key2)
    /\ Agent2Return
    /\ stage' = "Scored"
    /\ analyzed_result' = Materialize(unseen_spots, analyzed_spots')
    /\ cache2' = cache2 \cup {[key |-> Key2, value |-> analyzed_result',
                               said |-> msgs' \cap A2Msgs,
                               input |-> AsDiscovered(unseen_spots)]}
    /\ RunFrame
    /\ UNCHANGED <<cache1, cache3>>

\* lines 322-325 on a cache hit: the stored list and messages are replayed
HitAgent2 ==
    /\ stage = "Scoring"
    /\ a2_result = "none"
    /\ Cached(cache2, Key2)
    /\ analyzed_result' = Entry(cache2, Key2).value
    /\ msgs' = msgs \cup Entry(cache2, Key2).said
    /\ a2_result' = "cached"
    /\ stage' = "Scored"
    /\ RunFrame
    /\ UNCHANGED <<unseen_spots, next_spot, analyzed_spots, trace2>>
    /\ UNCHANGED a1vars
    /\ UNCHANGED a3vars
    /\ UNCHANGED cachevars

\* lines 327-334 and 355-356: the test on agent2's list and the slice
AfterAgent2 ==
    /\ stage = "Scored"
    /\ IF HasAnalyzedSpots(analyzed_result)
          THEN /\ stage' = "Composing"
               /\ top_spots' = TopSlice(analyzed_result)
               /\ msgs' = msgs
          ELSE /\ stage' = "Done"
               /\ top_spots' = top_spots
               /\ msgs' = msgs \cup WarnNoScored
    /\ RunFrame
    /\ UNCHANGED <<unseen_spots, analyzed_result, final_itinerary, llm3, a3_result>>
    /\ UNCHANGED a1vars
    /\ UNCHANGED a2vars
    /\ UNCHANGED cachevars

\* lines 330-334 on a cache miss: agent3 runs; what it returns is stored
CallAgent3On(llms) ==
    /\ ~Cached(cache3, Key3)
    /\ Agent3On(llms)
    /\ stage' = "Composed"
    /\ cache3' = cache3 \cup {[key |-> Key3, value |-> final_itinerary',
                               said |-> msgs' \cap A3Msgs,
                               input |-> <<top_spots, city_input, vibe_input>>]}
    /\ RunFrame
    /\ UNCHANGED <<analyzed_result, cache1, cache2>>

\* lines 330-334 on a cache hit: the stored result and messages are replayed
HitAgent3 ==
    /\ stage = "Composing"
    /\ Cached(cache3, Key3)
    /\ final_itinerary' = Entry(cache3, Key3).value
    /\ msgs' = msgs \cup Entry(cache3, Key3).said
    /\ a3_result' = "cached"
    /\ stage' = "Composed"
    /\ RunFrame
    /\ UNCHANGED <<unseen_spots, analyzed_result, top_spots, llm3>>
    /\ UNCHANGED a1vars
    /\ UNCHANGED a2vars
    /\ UNCHANGED cachevars

\* lines 337-354: the itinerary is displayed, or the failure of agent3
Display ==
    /\ stage = "Composed"
    /\ msgs' = msgs \cup (IF final_itinerary # NoneValue
                             THEN {"orch.display.itinerary"}
                             ELSE {"orch.error.a3_failed"})
    /\ stage' = "Done"
    /\ RunFrame
    /\ UNCHANGED <<unseen_spots, analyzed_result>>
    /\ UNCHANGED a1vars
    /\ UNCHANGED a2vars
    /\ UNCHANGED a3vars
    /\ UNCHANGED cachevars

\* one script run from the sidebar, nothing cached
Init ==
    /\ stage = "Idle"
    /\ city_input \in {"", "Lisbon"}
    /\ vibe_input \in {"", "cozy cafe"}
    /\ run_button = FALSE
    /\ runs = 1
    /\ min_rating = RunMinRating
    /\ max_reviews = RunMaxReviews
    /\ unseen_spots = <<>>
    /\ analyzed_result = <<>>
    /\ top_spots = <<>>
    /\ msgs = {}
    /\ Idle1 /\ Idle2 /\ Idle3
    /\ cache1 = EmptyCache /\ cache2 = EmptyCache /\ cache3 = EmptyCache

CallAgent1 == CallAgent1On(SeqsUpTo(RunPlaces, MaxRunHits))
CallAgent2Step == CallAgent2StepOn(RunDetails, RunLlm2)
CallAgent3 == CallAgent3On(RunLlm3)

Next ==
    \/ RunButton
    \/ CallAgent1
    \/ AfterAgent1
    \/ CallAgent2Step
    \/ CallAgent2Return
    \/ AfterAgent2
    \/ CallAgent3
    \/ Display

Spec == Init /\ [][Next]_vars

----------------------------------------------------------------------------
(* Several script runs in one process, within the ttl of the cache         *)
(* (3600 s, lines 61, 107, 197): no entry expires.                         *)

CacheVibes == {"cozy cafe", "jazz bar"}

\* the hits of a search: a place that passes the filter at either review
\* limit, and one that passes at the higher limit only
CachePlaces ==
    {[name |-> "Cafe A", place_id |-> "place 1", rating |-> Num(46),
      user_ratings_total |-> Num(50)],
     [name |-> "Cafe B", place_id |-> "place 2", rating |-> Num(46),
      user_ratings_total |-> Num(100)]}

CacheDetails == {x \in DetailAnswers : x.kind = "ok" /\ x.reviews > 0 /\ x.url # NoKey}
CacheLlm2 == {x \in RunLlm2 : x.kind = "raise" \/ x.score = 10}
CacheLlm3 == {x \in LlmAnswers3 : x.itinerary_spots = <<>> /\ x.name # "other"}

\* the first script run of the process
InitCache ==
    /\ stage = "Idle"
    /\ city_input = "Lisbon"
    /\ vibe_input \in CacheVibes
    /\ run_button = FALSE
    /\ runs = 1
    /\ min_rating = RunMinRating
    /\ max_reviews \in MaxReviewsChoices
    /\ unseen_spots = <<>>
    /\ analyzed_result = <<>>
    /\ top_spots = <<>>
    /\ msgs = {}
    /\ Idle1 /\ Idle2 /\ Idle3
    /\ cache1 = EmptyCache /\ cache2 = EmptyCache /\ cache3 = EmptyCache

\* the user changes the sidebar after a run: the script starts again from
\* its first line, with the process's cache as it is
Rerun ==
    /\ stage = "Done"
    /\ runs < MaxRuns
    /\ runs' = runs + 1
    /\ stage' = "Idle"
    /\ run_button' = FALSE
    /\ city_input' = city_input
    /\ vibe_input' \in CacheVibes
    /\ max_reviews' \in MaxReviewsChoices
    /\ min_rating' = min_rating
    /\ unseen_spots' = <<>>
    /\ analyzed_result' = <<>>
    /\ top_spots' = <<>>
    /\ msgs' = {}
    /\ raw_results' = <<>> /\ a1_result' = "none" /\ maps_calls' = {}
    /\ next_spot' = 1 /\ analyzed_spots' = <<>> /\ trace2' = <<>> /\ a2_result' = "none"
    /\ final_itinerary' = NoneValue /\ llm3' = <<>> /\ a3_result' = "none"
    /\ UNCHANGED cachevars

CacheCallAgent1 == CallAgent1On(SeqsUpTo(CachePlaces, 1))
CacheCallAgent2Step == CallAgent2StepOn(CacheDetails, CacheLlm2)
CacheCallAgent3 == CallAgent3On(CacheLlm3)

NextCache ==
    \/ RunButton
    \/ CacheCallAgent1
    \/ HitAgent1
    \/ AfterAgent1
    \/ CacheCallAgent2Step
    \/ CallAgent2Return
    \/ HitAgent2
    \/ AfterAgent2
    \/ CacheCallAgent3
    \/ HitAgent3
    \/ Display
    \/ Rerun

SpecCache == InitCache /\ [][NextCache]_vars

----------------------------------------------------------------------------
(* Properties of Discovery.                                                *)

Range(f) == {f[i] : i \in DOMAIN f}

\* the number of positions of sequence f that hold x
Count(f, x) == Cardinality({i \in DOMAIN f : f[i] = x})

\* the claim's eligibility of a raw hit: a missing rating or review count
\* counts as 0
HitRating(place) == IF place.rating.tag = "num" THEN place.rating.v ELSE 0
HitReviewCount(place) ==
    IF place.user_ratings_total.tag = "num" THEN place.user_ratings_total.v ELSE 0
Eligible(place) ==
    /\ place.rating.tag # "bad"
    /\ place.user_ratings_total.tag # "bad"
    /\ HitRating(place) >= min_rating
    /\ 0 < HitReviewCount(place)
    /\ HitReviewCount(place) <= max_reviews

\* the Candidate of a raw hit
CandidateOf(place) ==
    [name |-> IF place.name = NoKey THEN PyNone ELSE place.name,
     place_id |-> place.place_id,
     rating |-> HitRating(place),
     review_count |-> HitReviewCount(place),
     url |-> NoKey,
     vibe_analysis |-> NoneValue]

\* C1: when agent1 returns, every raw hit of the nearby search has its
\* Candidate in the output if and only if rating >= minRating and
\* 0 < reviewCount <= maxReviews: each Candidate is in the output as many
\* times as there are eligible hits it is the Candidate of, and the output
\* holds nothing else.
C1_InverseFilter ==
    a1_result = "returned" =>
        /\ \A i \in DOMAIN raw_results :
             LET c == CandidateOf(raw_results[i])
             IN  Count(unseen_spots, c) =
                 Cardinality({j \in DOMAIN raw_results :
                                 /\ Eligible(raw_results[j])
                                 /\ CandidateOf(raw_results[j]) = c})
        /\ \A k \in DOMAIN unseen_spots :
             \E j \in DOMAIN raw_results :
                 Eligible(raw_results[j]) /\ CandidateOf(raw_results[j]) = unseen_spots[k]

\* C1 witness: agent1 has returned from a search with two hits, one at the
\* rating threshold and the review limit (kept) and one with no review
\* count (dropped).
C1_Witness ==
    /\ a1_result = "returned"
    /\ Len(raw_results) = 2
    /\ Len(unseen_spots) = 1
    /\ \E i, j \in DOMAIN raw_results :
         /\ raw_results[i].rating = Num(min_rating)
         /\ raw_results[i].user_ratings_total = Num(max_reviews)
         /\ Eligible(raw_results[i])
         /\ raw_results[j].user_ratings_total = Absent
         /\ raw_results[j].rating = Num(min_rating)

----------------------------------------------------------------------------
(* Properties of VibeScorer.                                               *)

\* the output of agent2 as scores
OutScore(k) == unseen_spots[analyzed_spots[k]].vibe_analysis.vibe_match_score

\* scoring succeeded for the spot of trace entry t: reviews came back, the
\* model answered with the expected call, the arguments validated
Succeeded(t) ==
    /\ t.details.kind = "ok"
    /\ t.details.reviews > 0
    /\ t.llm.kind = "call"
    /\ t.llm.name = "analyze_spot_vibe"
    /\ t.llm.others_ok
    /\ t.llm.score_int

\* C2: when agent2 returns, its output is sorted by score, highest first,
\* and every element of it is a spot of the input, none of them twice.
C2_SortedSubset ==
    a2_result = "returned" =>
        /\ \A a, b \in DOMAIN analyzed_spots : a < b => OutScore(a) >= OutScore(b)
        /\ \A a \in DOMAIN analyzed_spots : analyzed_spots[a] \in DOMAIN unseen_spots
        /\ \A a, b \in DOMAIN analyzed_spots :
             a # b => analyzed_spots[a] # analyzed_spots[b]

\* C2 witness: agent2 has returned three spots whose scores came in rising
\* order, so that the sort has reversed them.
C2_Witness ==
    /\ a2_result = "returned"
    /\ analyzed_spots = <<3, 2, 1>>
    /\ OutScore(1) > OutScore(2)
    /\ OutScore(2) > OutScore(3)

\* C3: no failure of one spot ends the stage or stops the loop: agent2 never
\* raises, while it runs it can always take its next step, and when it
\* returns every spot has been processed and every spot whose own fetch,
\* model call and validation succeeded is in the output.
C3_FailureIsolation ==
    /\ a2_result # "raised"
    /\ Len(trace2) = next_spot - 1
    /\ (stage = "Scoring" /\ a2_result = "none") => ENABLED NextScorer
    /\ a2_result = "returned" =>
         /\ Len(trace2) = Len(unseen_spots)
         /\ \A j \in DOMAIN trace2 :
              Succeeded(trace2[j]) => j \in Range(analyzed_spots)

\* C3 witness: agent2 has returned after a detail fetch that raised for the
\* first spot and a validation that failed for the second; the third spot,
\* which succeeded, is the output.
C3_Witness ==
    /\ a2_result = "returned"
    /\ Len(trace2) = 3
    /\ trace2[1].details.kind = "raise"
    /\ trace2[2].llm.kind = "call" /\ trace2[2].llm.name = "analyze_spot_vibe"
    /\ ~trace2[2].llm.score_int
    /\ Succeeded(trace2[3])
    /\ analyzed_spots = <<3>>

\* C4: when agent2 returns, its output holds exactly the spots whose scoring
\* succeeded, each with a url and an analysis of all four fields, and every
\* other spot has no analysis at all; when no scoring succeeded the output
\* is empty.
C4_ExactlyTheScored ==
    a2_result = "returned" =>
        /\ Range(analyzed_spots) = {j \in DOMAIN trace2 : Succeeded(trace2[j])}
        /\ \A j \in Range(analyzed_spots) :
             /\ DOMAIN unseen_spots[j].vibe_analysis = FieldNames
             /\ unseen_spots[j].url # NoKey
        /\ \A j \in DOMAIN unseen_spots \ Range(analyzed_spots) :
             unseen_spots[j].vibe_analysis = NoneValue
        /\ (\A j \in DOMAIN trace2 : ~Succeeded(trace2[j])) => analyzed_spots = <<>>

\* C4 witness: agent2 has returned from three spots: the model answered
\* with a call of another name for the first, the other two were scored and
\* are the output.
C4_Witness ==
    /\ a2_result = "returned"
    /\ Len(trace2) = 3
    /\ trace2[1].llm.kind = "call" /\ trace2[1].llm.name = "other"
    /\ Succeeded(trace2[2]) /\ Succeeded(trace2[3])
    /\ Range(analyzed_spots) = {2, 3}

\* C5: every spot in agent2's output has a score from 1 to 10.
C5_ScoreInRange ==
    a2_result = "returned" =>
        \A k \in DOMAIN analyzed_spots : OutScore(k) \in 1..10

\* C6: a spot whose detail fetch returned no reviews is never in agent2's
\* output, wherever it stands in the input, and the model was not invoked
\* for it.
C6_NoReviewsNoScore ==
    \A j \in DOMAIN trace2 :
        (trace2[j].details.kind = "ok" /\ trace2[j].details.reviews = 0) =>
            /\ j \notin Range(analyzed_spots)
            /\ trace2[j].llm = NotCalled

\* C6 witness: agent2 has returned; the second of three spots had no
\* reviews, the spots around it were scored.
C6_Witness ==
    /\ a2_result = "returned"
    /\ Len(trace2) = 3
    /\ trace2[2].details.kind = "ok" /\ trace2[2].details.reviews = 0
    /\ Range(analyzed_spots) = {1, 3}

\* C7: when agent2 returns, two spots of the output with equal scores stand
\* in the order they had in the input.
C7_StableTies ==
    a2_result = "returned" =>
        \A a, b \in DOMAIN analyzed_spots :
            (a < b /\ OutScore(a) = OutScore(b)) => analyzed_spots[a] < analyzed_spots[b]

\* C7 witness: agent2 has returned three spots; the first two of the input
\* tie and the third has a higher score, so the output is the third, then
\* the first, then the second.
C7_Witness ==
    /\ a2_result = "returned"
    /\ analyzed_spots = <<3, 1, 2>>
    /\ OutScore(2) = OutScore(3)
    /\ OutScore(1) > OutScore(2)

----------------------------------------------------------------------------
(* Properties of ItineraryComposer.                                        *)

\* C8: agent3 called with an empty list returns None and has made no model
\* invocation.
C8_EmptyReturnsNone ==
    (a3_result = "returned" /\ top_spots = <<>>) =>
        /\ final_itinerary = NoneValue
        /\ llm3 = <<>>

\* C8 witness: agent3 has returned from a call with the empty list.
C8_Witness ==
    /\ a3_result = "returned"
    /\ top_spots = <<>>
    /\ final_itinerary = NoneValue

\* C9: whenever agent3 returns an itinerary, it has as many spots as the
\* input list.
C9_SpotsLength ==
    (a3_result = "returned" /\ final_itinerary # NoneValue) =>
        Len(final_itinerary.itinerary_spots) = Len(top_spots)

\* C10: in every itinerary agent3 returns, each spot is one of the input
\* spots: its place_name is that spot's name and its google_maps_link is
\* that spot's url (stated for at least one input spot, the least the claim
\* asks).
C10_SpotsAreInputs ==
    (a3_result = "returned" /\ final_itinerary # NoneValue) =>
        \A k \in DOMAIN final_itinerary.itinerary_spots :
            \E j \in DOMAIN top_spots :
                /\ final_itinerary.itinerary_spots[k].place_name = top_spots[j].name
                /\ final_itinerary.itinerary_spots[k].google_maps_link = top_spots[j].url

----------------------------------------------------------------------------
(* Further properties of Discovery.                                        *)

\* a raw hit with all four fields there and of the right type
WellFormed(place) ==
    /\ place.name \notin {NoKey, PyNone}
    /\ place.place_id \notin {NoKey, PyNone}
    /\ place.rating.tag = "num"
    /\ place.user_ratings_total.tag = "num"

\* the hits of a list that are well formed and eligible, as Candidates
RECURSIVE WellFormedMatches(_)
WellFormedMatches(places) ==
    IF places = <<>> THEN <<>>
    ELSE (IF WellFormed(Head(places)) /\ Eligible(Head(places))
             THEN <<CandidateOf(Head(places))>> ELSE <<>>)
         \o WellFormedMatches(Tail(places))

\* C14: once the nearby search has answered, agent1 returns, whatever the
\* hits hold: a hit with a missing or wrongly typed name, place_id, rating
\* or review count gives no Candidate, and the output is what the filter
\* keeps of the other hits.
C14_MalformedSkipped ==
    ("places_nearby" \in maps_calls /\ "a1.error.maps_api" \notin msgs) =>
        /\ a1_result = "returned"
        /\ unseen_spots = WellFormedMatches(raw_results)

\* C16: when agent1 returns, its output stands in the order of the raw
\* hits: the Candidates are those of eligible hits at strictly increasing
\* positions of the raw list.
C16_RawOrderKept ==
    a1_result = "returned" =>
        \E f \in [DOMAIN unseen_spots -> DOMAIN raw_results] :
            /\ \A k \in DOMAIN unseen_spots :
                 /\ Eligible(raw_results[f[k]])
                 /\ unseen_spots[k] = CandidateOf(raw_results[f[k]])
            /\ \A k, l \in DOMAIN unseen_spots : k < l => f[k] < f[l]

\* C16 witness: agent1 has returned two different Candidates, the one of
\* the first hit first.
C16_Witness ==
    /\ a1_result = "returned"
    /\ Len(raw_results) = 2
    /\ Len(unseen_spots) = 2
    /\ unseen_spots[1] # unseen_spots[2]
    /\ unseen_spots[1] = CandidateOf(raw_results[1])
    /\ unseen_spots[2] = CandidateOf(raw_results[2])

----------------------------------------------------------------------------
(* Further properties of ItineraryComposer.                                *)

\* the model's answer is not a validated generate_itinerary call
Failed3(answer) ==
    \/ answer.kind = "raise"
    \/ answer.name # "generate_itinerary"
    \/ ~answer.fields_ok

\* C17: agent3 called with a non-empty list has invoked the model exactly
\* once when it returns, and never more than once; if the call raised,
\* named another function or did not validate, it returns None with an
\* error message surfaced.
C17_SingleAttempt ==
    /\ Len(llm3) <= 1
    /\ (a3_result = "returned" /\ top_spots # <<>>) =>
         /\ Len(llm3) = 1
         /\ Failed3(llm3[1].answer) =>
              /\ final_itinerary = NoneValue
              /\ msgs \cap {"a3.error.exception", "a3.error.structure"} # {}

\* C17 witness: agent3 has returned None from a call with two spots, after
\* one invocation whose arguments did not validate.
C17_Witness ==
    /\ a3_result = "returned"
    /\ Len(top_spots) = 2
    /\ Len(llm3) = 1
    /\ llm3[1].answer.name = "generate_itinerary"
    /\ ~llm3[1].answer.fields_ok
    /\ final_itinerary = NoneValue

----------------------------------------------------------------------------
(* Properties of the orchestrator.                                         *)

\* the run has been started: the button is pressed and both texts are there
Started == run_button /\ ~(city_input = "" \/ vibe_input = "")

\* the run is over: the button is pressed and no step is left
RunOver == run_button /\ ~ENABLED Next

ErrorsAndWarnings ==
    {"orch.error.input", "orch.error.a3_failed", "orch.warning.a1_none",
     "orch.warning.a2_none", "a1.error.no_coordinates", "a1.error.maps_api",
     "a2.warning.error", "a3.error.exception", "a3.error.structure"}

\* C11: the stages run in the order Idle, Discovering, Scoring, Composing,
\* Done: Scoring only after Discovery has returned a non-empty list,
\* Composing only after Scoring has returned a non-empty list, no later
\* stage after an empty list, and every started run ends in Done.
C11_StageOrder ==
    /\ stage \in {"Idle", "Discovering"} =>
         a1_result = "none" /\ a2_result = "none" /\ a3_result = "none"
    /\ stage \in {"Scoring", "Scored", "Composing", "Composed"} =>
         a1_result = "returned" /\ unseen_spots # <<>>
    /\ stage \in {"Discovered", "Scoring"} =>
         a2_result = "none" /\ a3_result = "none"
    /\ stage \in {"Composing", "Composed"} =>
         a2_result = "returned" /\ analyzed_result # <<>>
    /\ stage \in {"Scored", "Composing"} => a3_result = "none"
    /\ (stage = "Done" /\ unseen_spots = <<>>) =>
         a2_result = "none" /\ trace2 = <<>> /\ a3_result = "none"
    /\ (stage = "Done" /\ analyzed_result = <<>>) => a3_result = "none" /\ llm3 = <<>>
    /\ (Started /\ RunOver) => stage = "Done"

\* C12: when the button is pressed with the city or the vibe empty, the
\* run stays in Idle: no agent function has run, no Maps or model call has
\* been made, and the input error is on the page.
C12_EmptyInputStaysIdle ==
    (run_button /\ (city_input = "" \/ vibe_input = "")) =>
        /\ stage = "Idle"
        /\ "orch.error.input" \in msgs
        /\ a1_result = "none" /\ a2_result = "none" /\ a3_result = "none"
        /\ maps_calls = {} /\ trace2 = <<>> /\ llm3 = <<>>

\* C12 witness: the button has been pressed with a city and no vibe, and
\* the input error is on the page.
C12_Witness ==
    /\ run_button
    /\ city_input = "Lisbon"
    /\ vibe_input = ""
    /\ "orch.error.input" \in msgs

\* C13: in a run where Discovery failed (no coordinates, or a Maps error)
\* the message for "no spots matched the filter" is not shown.
C13_FailureIsNotNoMatch ==
    (msgs \cap {"a1.error.no_coordinates", "a1.error.maps_api"} # {}) =>
        "orch.warning.a1_none" \notin msgs

\* C18: after a geocode without result agent1 has reported it, has made no
\* nearby search and has returned the empty list; after a failed Maps call
\* it has reported the error and returned the empty list; in both cases
\* the run goes on to Done and neither agent2 nor agent3 runs.
C18_DiscoveryFailure ==
    /\ "a1.error.no_coordinates" \in msgs =>
         /\ maps_calls = {"geocode"}
         /\ a1_result = "returned"
         /\ unseen_spots = <<>>
    /\ "a1.error.maps_api" \in msgs =>
         /\ a1_result = "returned"
         /\ unseen_spots = <<>>
    /\ (a1_result = "returned" /\ "a1.write.found" \notin msgs) =>
         /\ msgs \cap {"a1.error.no_coordinates", "a1.error.maps_api"} # {}
         /\ stage = "Done" \/ (stage = "Discovered" /\ ENABLED AfterAgent1)
         /\ a2_result = "none" /\ trace2 = <<>>
         /\ a3_result = "none" /\ llm3 = <<>>

\* C18 witness: a run is in Done after a geocode without result.
C18_Witness ==
    /\ stage = "Done"
    /\ "a1.error.no_coordinates" \in msgs
    /\ maps_calls = {"geocode"}

\* C19: a run that is over in Idle or Done without a displayed itinerary
\* has an error or a warning on the page.
C19_NoSilentEnd ==
    (run_button /\ stage \in {"Idle", "Done"} /\ "orch.display.itinerary" \notin msgs) =>
        msgs \cap ErrorsAndWarnings # {}

\* C19 witness: a run is in Done after agent2 skipped every spot for want
\* of reviews, none of them with an exception; the only warning on the page
\* is the orchestrator's.
C19_Witness ==
    /\ stage = "Done"
    /\ a2_result = "returned"
    /\ Len(trace2) = 2
    /\ analyzed_result = <<>>
    /\ msgs \cap ErrorsAndWarnings = {"orch.warning.a2_none"}

\* the score of a scored spot
Score(spot) == spot.vibe_analysis.vibe_match_score

\* C20: the list handed to agent3 is the prefix of agent2's list of length
\* min(3, n), and every spot of it has a score at least that of every
\* scored spot left out.
C20_TopPrefix ==
    stage \in {"Composing", "Composed"} =>
        LET n == Len(analyzed_result)
            m == IF n < 3 THEN n ELSE 3
        IN  /\ Len(top_spots) = m
            /\ \A k \in 1..m : top_spots[k] = analyzed_result[k]
            /\ \A k \in 1..m : \A j \in (m + 1)..n :
                 Score(top_spots[k]) >= Score(analyzed_result[j])

\* C20 witness: agent3 has been called with three of four scored spots, the
\* one left out having a lower score than each of them.
C20_Witness ==
    /\ stage = "Composed"
    /\ Len(analyzed_result) = 4
    /\ Len(top_spots) = 3
    /\ \A k \in 1..3 : Score(top_spots[k]) > Score(analyzed_result[4])

----------------------------------------------------------------------------
(* Properties of the cache.                                                *)

\* C15: a stage's result is served from the cache only when every input of
\* the call equals that of the call that produced the entry: for agent2
\* the list of spots (and the vibe), for agent3 the top spots, the city and
\* the vibe.
C15_KeyedByFullInput ==
    /\ a2_result = "cached" => Entry(cache2, Key2).input = unseen_spots
    /\ a3_result = "cached" =>
         Entry(cache3, Key3).input = <<top_spots, city_input, vibe_input>>

====
